---- MODULE Spec2Model ----
(***************************************************************************)
(* The two command-gating hooks of claude/user/hooks:                      *)
(*   shell_rules.py               PreToolUse hook: deny / ask / silent     *)
(*   opus_permission_validator.py PermissionRequest hook: allow / deny,    *)
(*                                with an allow-list and an oracle call    *)
(* Each hook is a process that reads one JSON document from standard       *)
(* input, writes at most one decision document to standard output and      *)
(* exits.  Both are run on the same input document.                        *)
(*                                                                         *)
(* Text is modelled as TLA+ strings, character by character.  A grave      *)
(* accent cannot be written inside a TLA+ string, so that one character    *)
(* is written as Backtick below; no other text of the model uses it.       *)
(***************************************************************************)
EXTENDS Integers, Sequences, FiniteSets, TLC

VARIABLES stdin, r_pc, r_stdout, r_exit,
          v_pc, v_stdout, is_simple, first_word, oracle_calls, oracle_result

(***************************************************************************)
(* stdin          the document on standard input, read by both hooks       *)
(* r_pc           shell_rules.main: "start", or the place where it ended   *)
(* r_stdout       the decisions shell_rules.py printed                     *)
(* r_exit         the exit code of shell_rules.py (1: uncaught exception)  *)
(* v_pc           opus_permission_validator.main: "start", or the return   *)
(*                it took                                                  *)
(* v_stdout       the decisions the validator printed                      *)
(* is_simple, first_word   main's locals of lines 161-162, once computed   *)
(* oracle_calls   the number of subprocess.run calls made                  *)
(* oracle_result  what the last subprocess.run call did                    *)
(***************************************************************************)
vars == <<stdin, r_pc, r_stdout, r_exit,
          v_pc, v_stdout, is_simple, first_word, oracle_calls, oracle_result>>

(***************************************************************************)
(* Bound of the model: generated commands are made of at most MaxFrags     *)
(* fragments of Lexicon.                                                   *)
(***************************************************************************)
MaxFrags == 3

Backtick == "~"

----------------------------------------------------------------------------
(* Python str primitives *)

Char(s, i) == SubSeq(s, i, i)

Whitespace == {" ", "\t", "\n", "\r", "\f"}

IsSpace(c) == c \in Whitespace

WordChars ==
    {"a","b","c","d","e","f","g","h","i","j","k","l","m",
     "n","o","p","q","r","s","t","u","v","w","x","y","z",
     "A","B","C","D","E","F","G","H","I","J","K","L","M",
     "N","O","P","Q","R","S","T","U","V","W","X","Y","Z",
     "0","1","2","3","4","5","6","7","8","9","_"}

\* sub in s
Contains(s, sub) ==
    \E i \in 1..(Len(s) - Len(sub) + 1) : SubSeq(s, i, i + Len(sub) - 1) = sub

\* s.startswith(prefix)
StartsWith(s, prefix) ==
    Len(prefix) <= Len(s) /\ SubSeq(s, 1, Len(prefix)) = prefix

RECURSIVE LStrip(_)
LStrip(s) ==
    IF s # "" /\ IsSpace(Char(s, 1)) THEN LStrip(SubSeq(s, 2, Len(s))) ELSE s

RECURSIVE RStrip(_)
RStrip(s) ==
    IF s # "" /\ IsSpace(Char(s, Len(s))) THEN RStrip(SubSeq(s, 1, Len(s) - 1)) ELSE s

\* s.strip()
Strip(s) == RStrip(LStrip(s))

\* s.split(): the maximal runs of non-whitespace characters, left to right
RECURSIVE SplitFrom(_, _, _, _)
SplitFrom(s, i, cur, acc) ==
    IF i > Len(s)
    THEN IF cur = "" THEN acc ELSE Append(acc, cur)
    ELSE IF IsSpace(Char(s, i))
         THEN SplitFrom(s, i + 1, "", IF cur = "" THEN acc ELSE Append(acc, cur))
         ELSE SplitFrom(s, i + 1, cur \o Char(s, i), acc)

Split(s) == SplitFrom(s, 1, "", <<>>)

----------------------------------------------------------------------------
(* re.search for the pattern atoms the rules use.  A pattern is a sequence *)
(* of atoms; a position p is the index of the next character to read.      *)

Lit(t) == [a |-> "lit", s |-> t]
WordBoundary == [a |-> "b", s |-> ""]
Spaces1 == [a |-> "s+", s |-> ""]
AnyStar == [a |-> ".*", s |-> ""]

IsWordAt(s, p) == p >= 1 /\ p <= Len(s) /\ Char(s, p) \in WordChars

\* the positions reached from a position of P by matching one atom
StepAtom(atom, s, P) ==
    CASE atom.a = "lit" ->
           {p + Len(atom.s) : p \in {q \in P : q + Len(atom.s) - 1 <= Len(s)
                                      /\ SubSeq(s, q, q + Len(atom.s) - 1) = atom.s}}
      [] atom.a = "b" ->
           {p \in P : IsWordAt(s, p - 1) # IsWordAt(s, p)}
      [] atom.a = "s+" ->
           UNION {{q \in (p + 1)..(Len(s) + 1) :
                      \A k \in p..(q - 1) : IsSpace(Char(s, k))} : p \in P}
      [] atom.a = ".*" ->
           UNION {{q \in p..(Len(s) + 1) :
                      \A k \in p..(q - 1) : Char(s, k) # "\n"} : p \in P}

RECURSIVE MatchFrom(_, _, _, _)
MatchFrom(pattern, k, s, P) ==
    IF k > Len(pattern) \/ P = {} THEN P
    ELSE MatchFrom(pattern, k + 1, s, StepAtom(pattern[k], s, P))

\* re.search(pattern, s) is not None
Search(pattern, s) == MatchFrom(pattern, 1, s, 1..(Len(s) + 1)) # {}

----------------------------------------------------------------------------
(* JSON values read from standard input, with the Python operations the    *)
(* hooks apply to them.                                                    *)

JAbsent == [t |-> "absent", s |-> "", n |-> 0, items |-> <<>>]
JNull == [t |-> "null", s |-> "", n |-> 0, items |-> <<>>]
JStr(x) == [t |-> "str", s |-> x, n |-> 0, items |-> <<>>]
JNum(x) == [t |-> "num", s |-> "", n |-> x, items |-> <<>>]
JList(x) == [t |-> "list", s |-> "", n |-> 0, items |-> x]

\* d.get(key, default), v being the value under key or JAbsent
Get(v, default) == IF v.t = "absent" THEN default ELSE v

\* bool(v)
Truthy(v) ==
    CASE v.t = "str" -> v.s # ""
      [] v.t = "num" -> v.n # 0
      [] v.t = "list" -> v.items # <<>>
      [] OTHER -> FALSE

\* hook_input.get("tool_name", "")
ToolName(doc) == Get(doc.tool_name, JStr(""))

\* the value of .get("tool_input", {}).get("command", ""), where it can be taken
Command(doc) ==
    IF doc.tool_input = "absent" THEN JStr("") ELSE Get(doc.command, JStr(""))

\* .get is applied to something that is not a dict: AttributeError
NotADict(doc) == doc.kind = "nonobject" \/ doc.tool_input = "other"

----------------------------------------------------------------------------
(* shell_rules.py *)

ANTIPATTERNS ==
    << [pattern |-> <<Lit("xargs"), Spaces1, AnyStar, Lit("-I"), AnyStar,
                      Lit("sh"), Spaces1, Lit("-c")>>,
        reason |-> "xargs -I ... sh -c antipattern detected"] >>

FORBIDDEN ==
    << [pattern |-> <<WordBoundary, Lit("rm"), WordBoundary>>,
        reason |-> "rm command forbidden"] >>

RULES_CONTENT == "# Shell rules"

RulesFileStates == {"readable", "missing", "unreadable"}

\* load_rules(): the file's text, or the placeholder on FileNotFoundError;
\* any other error of open/read is not caught (file = "unreadable")
load_rules(file) ==
    IF file = "missing" THEN "(Rules file not found)" ELSE RULES_CONTENT

\* the reason of the first rule of the list whose pattern is found, or ""
RECURSIVE FirstMatch(_, _, _)
FirstMatch(rules, k, command) ==
    IF k > Len(rules) THEN ""
    ELSE IF Search(rules[k].pattern, command) THEN rules[k].reason
         ELSE FirstMatch(rules, k + 1, command)

Matches(rules, command) == \E k \in 1..Len(rules) : Search(rules[k].pattern, command)

\* check_command with the two loops in the other order
check_command_caution_first(command) ==
    IF Matches(ANTIPATTERNS, command)
    THEN [decision |-> "ask", reason |-> FirstMatch(ANTIPATTERNS, 1, command)]
    ELSE IF Matches(FORBIDDEN, command)
         THEN [decision |-> "deny", reason |-> FirstMatch(FORBIDDEN, 1, command)]
         ELSE [decision |-> "", reason |-> ""]

\* check_command without the loop over ANTIPATTERNS
check_command_forbidden_only(command) ==
    IF Matches(FORBIDDEN, command)
    THEN [decision |-> "deny", reason |-> FirstMatch(FORBIDDEN, 1, command)]
    ELSE [decision |-> "", reason |-> ""]

check_command(command) ==
    IF Matches(FORBIDDEN, command)
    THEN [decision |-> "deny", reason |-> FirstMatch(FORBIDDEN, 1, command)]
    ELSE IF Matches(ANTIPATTERNS, command)
         THEN [decision |-> "ask", reason |-> FirstMatch(ANTIPATTERNS, 1, command)]
         ELSE [decision |-> "", reason |-> ""]

PreToolUseOutput(decision, reason, rules) ==
    [permissionDecision |-> decision,
     permissionDecisionReason |-> reason \o "\n\n" \o rules]

RulesExit(pc, out, code) ==
    /\ r_pc = "start"
    /\ r_pc' = pc
    /\ r_stdout' = out
    /\ r_exit' = code
    /\ UNCHANGED <<stdin, v_pc, v_stdout, is_simple, first_word,
                   oracle_calls, oracle_result>>

\* line 47-49: json.load raises JSONDecodeError, sys.exit(0)
RulesInvalidJson ==
    /\ stdin.kind = "invalid"
    /\ RulesExit("invalid_json", <<>>, 0)

\* line 52: .get on a value that is no dict raises AttributeError, uncaught
RulesAttributeError ==
    /\ stdin.kind # "invalid"
    /\ NotADict(stdin)
    /\ RulesExit("attribute_error", <<>>, 1)

\* line 53-54: not command, sys.exit(0)
RulesNoCommand ==
    /\ stdin.kind = "object" /\ ~NotADict(stdin)
    /\ ~Truthy(Command(stdin))
    /\ RulesExit("no_command", <<>>, 0)

\* line 57 -> 36: re.search on a command that is no string raises TypeError, uncaught
RulesTypeError ==
    /\ stdin.kind = "object" /\ ~NotADict(stdin)
    /\ Truthy(Command(stdin))
    /\ Command(stdin).t # "str"
    /\ RulesExit("type_error", <<>>, 1)

\* line 57-59: no rule matches, sys.exit(0)
RulesClean ==
    /\ stdin.kind = "object" /\ ~NotADict(stdin)
    /\ Truthy(Command(stdin))
    /\ Command(stdin).t = "str"
    /\ check_command(Command(stdin).s).decision = ""
    /\ RulesExit("clean", <<>>, 0)

\* line 61-72: a rule matches; the rules text is loaded and the decision printed
RulesDecide ==
    /\ stdin.kind = "object" /\ ~NotADict(stdin)
    /\ Truthy(Command(stdin))
    /\ Command(stdin).t = "str"
    /\ LET r == check_command(Command(stdin).s) IN
       /\ r.decision # ""
       /\ \E file \in RulesFileStates :
            IF file = "unreadable"
            THEN RulesExit("rules_error", <<>>, 1)
            ELSE RulesExit("decided",
                           <<PreToolUseOutput(r.decision, r.reason, load_rules(file))>>, 0)

shell_rules_main ==
    \/ RulesInvalidJson
    \/ RulesAttributeError
    \/ RulesNoCommand
    \/ RulesTypeError
    \/ RulesClean
    \/ RulesDecide

----------------------------------------------------------------------------
(* opus_permission_validator.py *)

SAFE_COMMANDS ==
    {"ls", "pwd", "echo", "cat", "head", "tail", "wc",
     "grep", "rg", "fd", "find", "tree", "jq", "sort", "uniq",
     "git status", "git log", "git diff", "tokei", "dust"}

\* get_first_word taking the first token, wrapper or not
get_first_word_no_wrapper(command) ==
    LET parts == Split(command) IN
    IF parts = <<>> THEN "" ELSE parts[1]

get_first_word(command) ==
    LET parts == Split(command) IN
    IF parts = <<>> THEN ""
    ELSE IF parts[1] \in {"sudo", "time", "env"}
         THEN IF Len(parts) > 1 THEN parts[2] ELSE parts[1]
         ELSE parts[1]

\* line 161 without the "$(" entry
IsSimple_no_substitution(command) ==
    ~\E char \in {"|", ">", "<", "&", ";", Backtick} : Contains(command, char)

\* line 161
IsSimple(command) ==
    ~\E char \in {"|", ">", "<", "&", ";", "$(", Backtick} : Contains(command, char)

\* line 164 without is_simple
Whitelisted_any_shape(command) ==
    get_first_word(command) \in SAFE_COMMANDS

\* line 164
Whitelisted(command) ==
    IsSimple(command) /\ get_first_word(command) \in SAFE_COMMANDS

(* What subprocess.run does: it returns a completed process (exit code and *)
(* standard output), or raises TimeoutExpired, FileNotFoundError or        *)
(* another exception.                                                      *)
NoCall == [kind |-> "none", returncode |-> 0, stdout |-> ""]
Completed(code, out) == [kind |-> "completed", returncode |-> code, stdout |-> out]
Raised(what) == [kind |-> what, returncode |-> 0, stdout |-> ""]

OracleStdouts ==
    {"SAFE: read-only listing", " UNSAFE: deletes files\n", "UNSAFE:",
     "It is UNSAFE: x", ""}

OracleOutcomes ==
    {Completed(code, out) : code \in {0, 1}, out \in OracleStdouts}
    \cup {Raised("timeout"), Raised("not_found"), Raised("exception")}

\* analyze_with_opus without the test of the exit code
analyze_with_opus_ignoring_exit(result) ==
    CASE result.kind = "timeout" -> [is_safe |-> TRUE, reason |-> "Analysis timeout"]
      [] result.kind = "not_found" ->
           [is_safe |-> TRUE, reason |-> "Claude CLI not available"]
      [] result.kind = "exception" ->
           [is_safe |-> TRUE, reason |-> "Validation error: e"]
      [] OTHER ->
           LET response == Strip(result.stdout) IN
           IF StartsWith(response, "SAFE:")
           THEN [is_safe |-> TRUE,
                 reason |-> Strip(SubSeq(response, 6, Len(response)))]
           ELSE IF StartsWith(response, "UNSAFE:")
                THEN [is_safe |-> FALSE,
                      reason |-> Strip(SubSeq(response, 8, Len(response)))]
                ELSE [is_safe |-> TRUE, reason |-> "Unexpected response format"]

\* analyze_with_opus looking for UNSAFE: anywhere in the response
analyze_with_opus_unsafe_anywhere(result) ==
    CASE result.kind = "timeout" -> [is_safe |-> TRUE, reason |-> "Analysis timeout"]
      [] result.kind = "not_found" ->
           [is_safe |-> TRUE, reason |-> "Claude CLI not available"]
      [] result.kind = "exception" ->
           [is_safe |-> TRUE, reason |-> "Validation error: e"]
      [] OTHER ->
           IF result.returncode # 0
           THEN [is_safe |-> TRUE, reason |-> "Claude CLI error"]
           ELSE LET response == Strip(result.stdout) IN
                IF StartsWith(response, "SAFE:")
                THEN [is_safe |-> TRUE,
                      reason |-> Strip(SubSeq(response, 6, Len(response)))]
                ELSE IF Contains(response, "UNSAFE:")
                     THEN [is_safe |-> FALSE,
                           reason |-> Strip(SubSeq(response, 8, Len(response)))]
                     ELSE [is_safe |-> TRUE, reason |-> "Unexpected response format"]

\* line 85-123: the verdict for what subprocess.run did
analyze_with_opus(result) ==
    CASE result.kind = "timeout" -> [is_safe |-> TRUE, reason |-> "Analysis timeout"]
      [] result.kind = "not_found" ->
           [is_safe |-> TRUE, reason |-> "Claude CLI not available"]
      [] result.kind = "exception" ->
           [is_safe |-> TRUE, reason |-> "Validation error: e"]
      [] OTHER ->
           IF result.returncode # 0
           THEN [is_safe |-> TRUE, reason |-> "Claude CLI error"]
           ELSE LET response == Strip(result.stdout) IN
                IF StartsWith(response, "SAFE:")
                THEN [is_safe |-> TRUE,
                      reason |-> Strip(SubSeq(response, 6, Len(response)))]
                ELSE IF StartsWith(response, "UNSAFE:")
                     THEN [is_safe |-> FALSE,
                           reason |-> Strip(SubSeq(response, 8, Len(response)))]
                     ELSE [is_safe |-> TRUE, reason |-> "Unexpected response format"]

\* the decision object; a message that is None or empty is left out (message = "")
create_decision_json(behavior, message) ==
    [behavior |-> behavior, message |-> message]

\* line 147 without the test
IsBash_any_tool(doc) == TRUE

\* line 147
IsBash(doc) == ToolName(doc) = JStr("Bash")

ValidatorReturn(pc, out) ==
    /\ v_pc = "start"
    /\ v_pc' = pc
    /\ v_stdout' = <<out>>
    /\ UNCHANGED <<stdin, r_pc, r_stdout, r_exit>>

\* line 144, 180-182: json.load raises JSONDecodeError
ValidatorJsonError ==
    /\ stdin.kind = "invalid"
    /\ ValidatorReturn("json_error", create_decision_json("allow", ""))
    /\ UNCHANGED <<is_simple, first_word, oracle_calls, oracle_result>>

\* line 146-150
ValidatorNotBash ==
    /\ stdin.kind = "object"
    /\ ~IsBash(stdin)
    /\ ValidatorReturn("not_bash", create_decision_json("allow", ""))
    /\ UNCHANGED <<is_simple, first_word, oracle_calls, oracle_result>>

\* line 183-185: .get on a value that is no dict (146, 153: AttributeError),
\* `char in command` on a number (161: TypeError), command.split on a list
\* (29: AttributeError)
ValidatorHookError ==
    /\ \/ stdin.kind = "nonobject"
       \/ /\ stdin.kind = "object"
          /\ IsBash(stdin)
          /\ \/ NotADict(stdin)
             \/ Truthy(Command(stdin)) /\ Command(stdin).t # "str"
    /\ ValidatorReturn("hook_error", create_decision_json("allow", ""))
    /\ UNCHANGED <<is_simple, first_word, oracle_calls, oracle_result>>

\* line 152-158
ValidatorNoCommand ==
    /\ stdin.kind = "object"
    /\ IsBash(stdin)
    /\ ~NotADict(stdin)
    /\ ~Truthy(Command(stdin))
    /\ ValidatorReturn("no_command", create_decision_json("allow", ""))
    /\ UNCHANGED <<is_simple, first_word, oracle_calls, oracle_result>>

ValidatorHasCommand ==
    /\ stdin.kind = "object"
    /\ IsBash(stdin)
    /\ ~NotADict(stdin)
    /\ Truthy(Command(stdin))
    /\ Command(stdin).t = "str"

\* line 160-167
ValidatorWhitelisted ==
    /\ ValidatorHasCommand
    /\ Whitelisted(Command(stdin).s)
    /\ is_simple' = IsSimple(Command(stdin).s)
    /\ first_word' = get_first_word(Command(stdin).s)
    /\ ValidatorReturn("whitelisted", create_decision_json("allow", ""))
    /\ UNCHANGED <<oracle_calls, oracle_result>>

\* line 169-178: one call of the oracle, and the decision made from its verdict
ValidatorAnalyze ==
    /\ ValidatorHasCommand
    /\ ~Whitelisted(Command(stdin).s)
    /\ is_simple' = IsSimple(Command(stdin).s)
    /\ first_word' = get_first_word(Command(stdin).s)
    /\ \E result \in OracleOutcomes :
         LET verdict == analyze_with_opus(result) IN
         /\ oracle_calls' = oracle_calls + 1
         /\ oracle_result' = result
         /\ ValidatorReturn("analyzed",
                IF verdict.is_safe
                THEN create_decision_json("allow", "")
                ELSE create_decision_json("deny",
                         "Opus safety check: " \o verdict.reason))

opus_permission_validator_main ==
    \/ ValidatorJsonError
    \/ ValidatorNotBash
    \/ ValidatorHookError
    \/ ValidatorNoCommand
    \/ ValidatorWhitelisted
    \/ ValidatorAnalyze

----------------------------------------------------------------------------
(* The input documents *)

Lexicon == {" ", "rm", "ls", "sudo", "|", "$", "(", "x"}

RECURSIVE Concat(_)
Concat(frags) == IF frags = <<>> THEN "" ELSE Head(frags) \o Concat(Tail(frags))

GeneratedCommands ==
    {Concat(frags) : frags \in UNION {[1..n -> Lexicon] : n \in 0..MaxFrags}}

Scenarios ==
    {"ls -la", "rm -rf /tmp/x", "echo rm", "find . -name x -exec rm {} +",
     "find . -name '*.py' | xargs rm", "rmdir x", "  ", "\tls\n-la",
     "git status", "git log", "git diff --stat", "sudo git status", "git push",
     "sudo time ls", "env FOO=1 ls", "sudo ls", "time", "env cat x", "npm test",
     "xargs -I{} sh -c 'echo {}'", "echo xargs -I{} sh -c",
     "ls | xargs -I{} sh -c 'echo {}'", "xargs -I{} sh -c 'rm {}'",
     "echo xargs -I{} sh -c rm", "xargs -I{} sh-c",
     "cat a > b", "sort < a", "ls & pwd", "ls;pwd", "echo $(date)", "echo $HOME",
     "echo " \o Backtick \o "date" \o Backtick}

Object(tool_name, tool_input, command) ==
    [kind |-> "object", tool_name |-> tool_name, tool_input |-> tool_input,
     command |-> command]

NotAnObject(kind) ==
    [kind |-> kind, tool_name |-> JAbsent, tool_input |-> "absent", command |-> JAbsent]

\* values of "command" that are no string: null, 0, 5, [], ["rm"]
OtherValues == {JNull, JNum(0), JNum(5), JList(<<>>), JList(<<"rm">>)}

Documents ==
    {Object(JStr("Bash"), "object", JStr(c)) : c \in GeneratedCommands \cup Scenarios}
    \cup {Object(n, "object", JStr(c)) : n \in {JAbsent, JStr("Edit")}, c \in Scenarios}
    \cup {Object(n, "object", v) : n \in {JAbsent, JStr("Bash"), JStr("Edit")},
                                   v \in OtherValues \cup {JAbsent}}
    \cup {Object(n, i, JAbsent) : n \in {JAbsent, JStr("Bash"), JStr("Edit")},
                                  i \in {"absent", "other"}}
    \cup {NotAnObject("invalid"), NotAnObject("nonobject")}

----------------------------------------------------------------------------

Init ==
    /\ stdin \in Documents
    /\ r_pc = "start"
    /\ r_stdout = <<>>
    /\ r_exit = 0
    /\ v_pc = "start"
    /\ v_stdout = <<>>
    /\ is_simple = FALSE
    /\ first_word = ""
    /\ oracle_calls = 0
    /\ oracle_result = NoCall

Next ==
    \/ shell_rules_main
    \/ opus_permission_validator_main

Spec == Init /\ [][Next]_vars

----------------------------------------------------------------------------
(* Vocabulary of the properties *)

\* the document carries a command that is a non-empty string
StringCommand ==
    /\ stdin.kind = "object"
    /\ stdin.tool_input = "object"
    /\ stdin.command.t = "str"
    /\ stdin.command.s # ""

Cmd == stdin.command.s

BashTool == stdin.kind = "object" /\ stdin.tool_name = JStr("Bash")

RulesDone == r_pc # "start"
ValidatorDone == v_pc # "start"

Allow == [behavior |-> "allow", message |-> ""]

ForbiddenCmd == Matches(FORBIDDEN, Cmd)
CautionCmd == Matches(ANTIPATTERNS, Cmd)

\* the rules hook printed this decision with this reason, followed by the rules
\* text or by the placeholder of a missing rules file
RulesPrinted(decision, reason) ==
    /\ r_pc = "decided"
    /\ r_exit = 0
    /\ \E text \in {RULES_CONTENT, "(Rules file not found)"} :
         r_stdout = <<[permissionDecision |-> decision,
                       permissionDecisionReason |-> reason \o "\n\n" \o text]>>

\* the rules hook died reading the rules file, printing nothing
RulesFileCrash == r_pc = "rules_error" /\ r_stdout = <<>> /\ r_exit = 1

\* the oracle answered: exit code 0 and a stripped output that begins with prefix
OracleSaid(prefix) ==
    /\ oracle_result.kind = "completed"
    /\ oracle_result.returncode = 0
    /\ StartsWith(Strip(oracle_result.stdout), prefix)

\* timeout, executable not found, other exception, non-zero exit, or an output
\* that (stripped) begins with neither token
Indeterminate ==
    \/ oracle_result.kind \in {"timeout", "not_found", "exception"}
    \/ /\ oracle_result.kind = "completed"
       /\ \/ oracle_result.returncode # 0
          \/ /\ ~StartsWith(Strip(oracle_result.stdout), "SAFE:")
             /\ ~StartsWith(Strip(oracle_result.stdout), "UNSAFE:")

\* one of the metacharacters stands somewhere in s
HasMeta(s) ==
    \E i \in 1..Len(s) :
       \/ Char(s, i) \in {"|", ">", "<", "&", ";", Backtick}
       \/ Char(s, i) = "$" /\ i < Len(s) /\ Char(s, i + 1) = "("

\* the tokens of s, by their places: a token starts at a non-blank character
\* that begins s or follows a blank, and runs to the last character before the
\* next blank or the end of s
TokenStarts(s) ==
    {i \in 1..Len(s) : ~IsSpace(Char(s, i)) /\ (i = 1 \/ IsSpace(Char(s, i - 1)))}

TokenAt(s, i) ==
    SubSeq(s, i, CHOOSE j \in i..Len(s) :
                    /\ \A k \in i..j : ~IsSpace(Char(s, k))
                    /\ (j = Len(s) \/ IsSpace(Char(s, j + 1))))

FirstStart(S) == CHOOSE i \in S : \A j \in S : i <= j

\* the leading verb as the specification words it
LeadingVerb(s) ==
    LET starts == TokenStarts(s) IN
    IF starts = {} THEN ""
    ELSE LET first == TokenAt(s, FirstStart(starts))
             rest == starts \ {FirstStart(starts)}
         IN IF first \in {"sudo", "time", "env"} /\ rest # {}
            THEN TokenAt(s, FirstStart(rest))
            ELSE first

\* verb + first argument, the wrapper skipped as for the leading verb
TwoTokenPrefix(s) ==
    LET parts == Split(s)
        body == IF parts # <<>> /\ parts[1] \in {"sudo", "time", "env"}
                THEN Tail(parts) ELSE parts
    IN IF Len(body) >= 2 THEN body[1] \o " " \o body[2] ELSE ""

----------------------------------------------------------------------------
(* Properties *)

\* C1, as claimed: no hook answers a command that matches a forbidden pattern
\* with Allow: the validator's decision on it is Deny, and the rules hook,
\* when it exits normally, has printed Deny.
C1_ForbiddenNeverAllowed ==
    (StringCommand /\ BashTool /\ ForbiddenCmd) =>
        /\ ValidatorDone => v_stdout[1].behavior = "deny"
        /\ (RulesDone /\ r_exit = 0) => RulesPrinted("deny", "rm command forbidden")

\* C1, amended: for a command that matches a forbidden pattern the rules hook,
\* whatever the tool name, prints Deny with the rule's reason (or dies reading
\* the rules file, printing nothing); the validator does not look at the
\* rules: its decision on a Bash command is Deny exactly when the oracle was
\* asked and answered UNSAFE:, and Allow otherwise.
C1_RulesHookDeniesForbidden ==
    (StringCommand /\ ForbiddenCmd) =>
        /\ RulesDone => \/ RulesPrinted("deny", "rm command forbidden")
                        \/ RulesFileCrash
        /\ (ValidatorDone /\ BashTool) =>
              IF oracle_calls = 1 /\ OracleSaid("UNSAFE:")
              THEN v_stdout[1].behavior = "deny"
              ELSE v_stdout = <<Allow>>

\* a forbidden command with an allow-listed leading verb: denied by the rules
\* hook, allowed by the validator from the allow-list
C1_Witness ==
    /\ StringCommand /\ BashTool /\ ForbiddenCmd
    /\ RulesPrinted("deny", "rm command forbidden")
    /\ v_pc = "whitelisted" /\ v_stdout = <<Allow>>

\* C2: an oracle outcome that is Indeterminate (timeout, executable not found,
\* other exception, non-zero exit, stripped output beginning with neither
\* SAFE: nor UNSAFE:) ends in Allow, without a message.
C2_IndeterminateAllows ==
    (v_pc = "analyzed" /\ Indeterminate) => v_stdout = <<Allow>>

\* the oracle exited non-zero with an output that begins with UNSAFE:, and the
\* command was allowed
C2_Witness ==
    /\ v_pc = "analyzed"
    /\ oracle_result.kind = "completed" /\ oracle_result.returncode # 0
    /\ StartsWith(Strip(oracle_result.stdout), "UNSAFE:")
    /\ v_stdout = <<Allow>>

\* C3, as claimed: the oracle is invoked if and only if no forbidden pattern,
\* no caution pattern and no allow-list entry applies to the command.
C3_OracleIffNoOpinion ==
    (StringCommand /\ BashTool /\ ValidatorDone) =>
        (oracle_calls > 0 <=>
            (~ForbiddenCmd /\ ~CautionCmd
             /\ ~(IsSimple(Cmd) /\ get_first_word(Cmd) \in SAFE_COMMANDS)))

\* C3, amended: the oracle is invoked by the validator only, once, if and only
\* if the tool is Bash, the command is a non-empty string and the command is
\* not a simple one whose leading verb is in the allow-list; whether a
\* forbidden or caution pattern matches plays no part.
C3_OracleIffNotWhitelisted ==
    /\ ~ValidatorDone => oracle_calls = 0
    /\ ValidatorDone =>
         oracle_calls =
            IF /\ StringCommand /\ BashTool
               /\ ~(IsSimple(Cmd) /\ get_first_word(Cmd) \in SAFE_COMMANDS)
            THEN 1 ELSE 0

\* the rules hook has denied a forbidden command and the validator has asked
\* the oracle about it
C3_Witness ==
    /\ StringCommand /\ BashTool /\ ForbiddenCmd
    /\ RulesPrinted("deny", "rm command forbidden")
    /\ ValidatorDone /\ oracle_calls = 1

\* C4, as claimed: for a command that matches a caution pattern and no
\* forbidden pattern the oracle is never invoked, and the decision printed is Ask.
C4_CautionNeverReachesOracle ==
    (StringCommand /\ BashTool /\ CautionCmd /\ ~ForbiddenCmd) =>
        /\ oracle_calls = 0
        /\ (RulesDone /\ r_exit = 0) =>
              RulesPrinted("ask", "xargs -I ... sh -c antipattern detected")

\* C4, amended: for such a command the rules hook, which never invokes the
\* oracle, prints Ask with the rule's reason (or dies reading the rules file,
\* printing nothing); the validator does not look at the rules and invokes
\* the oracle for a Bash command unless it is simple with an allow-listed
\* leading verb.
C4_RulesHookAsksCaution ==
    (StringCommand /\ CautionCmd /\ ~ForbiddenCmd) =>
        /\ RulesDone => \/ RulesPrinted("ask", "xargs -I ... sh -c antipattern detected")
                        \/ RulesFileCrash
        /\ ~ValidatorDone => oracle_calls = 0
        /\ (ValidatorDone /\ BashTool) =>
              IF IsSimple(Cmd) /\ get_first_word(Cmd) \in SAFE_COMMANDS
              THEN oracle_calls = 0 /\ v_stdout = <<Allow>>
              ELSE oracle_calls = 1

\* the rules hook has printed Ask for a caution command and the validator has
\* asked the oracle about it
C4_Witness ==
    /\ StringCommand /\ BashTool /\ CautionCmd /\ ~ForbiddenCmd
    /\ RulesPrinted("ask", "xargs -I ... sh -c antipattern detected")
    /\ ValidatorDone /\ oracle_calls = 1

\* C5: a command that holds a metacharacter is never allowed from the
\* allow-list: is_simple is false, the validator's decision on it comes from
\* the oracle path, whatever its leading verb.
C5_CompoundNeverWhitelisted ==
    (StringCommand /\ HasMeta(Cmd) /\ ValidatorDone) =>
        /\ v_pc # "whitelisted"
        /\ BashTool => (v_pc = "analyzed" /\ ~is_simple /\ oracle_calls = 1)

\* a compound command whose leading verb is allow-listed was allowed after
\* the oracle was asked
C5_Witness ==
    /\ StringCommand /\ BashTool /\ HasMeta(Cmd)
    /\ get_first_word(Cmd) \in SAFE_COMMANDS
    /\ v_pc = "analyzed" /\ first_word \in SAFE_COMMANDS
    /\ v_stdout = <<Allow>>

\* C6, as claimed: a simple command that matches no rule is allowed without an
\* oracle call when its leading verb or its two-token prefix is in the
\* allow-list.
C6_TwoTokenPrefixWhitelisted ==
    (/\ StringCommand /\ BashTool /\ ValidatorDone
     /\ IsSimple(Cmd) /\ ~ForbiddenCmd /\ ~CautionCmd
     /\ \/ LeadingVerb(Cmd) \in SAFE_COMMANDS
        \/ TwoTokenPrefix(Cmd) \in SAFE_COMMANDS) =>
        (v_pc = "whitelisted" /\ oracle_calls = 0 /\ v_stdout = <<Allow>>)

\* C7, as claimed: a document whose tool is not Bash, or whose command is
\* empty or absent, is allowed by both hooks: no Deny or Ask is printed and
\* the oracle is not invoked.
C7_OtherToolsAlwaysAllowed ==
    (/\ stdin.kind = "object" /\ stdin.tool_input = "object"
     /\ stdin.command.t \in {"str", "absent"}
     /\ (~BashTool \/ ~Truthy(Command(stdin)))) =>
        /\ r_stdout = <<>>
        /\ oracle_calls = 0
        /\ ValidatorDone => v_stdout = <<Allow>>

\* C7, amended: for such a document the validator prints an unconditional
\* Allow and does not invoke the oracle; the rules hook does not read the
\* tool name: it is silent when the command is empty or absent, and applies
\* the rules to a non-empty command of any tool.
C7_ValidatorAllowsOtherTools ==
    /\ (/\ stdin.kind = "object" /\ ValidatorDone
        /\ (~BashTool \/ (~NotADict(stdin) /\ ~Truthy(Command(stdin))))) =>
           (v_stdout = <<Allow>> /\ oracle_calls = 0
            /\ v_pc \in {"not_bash", "no_command"})
    /\ (/\ stdin.kind = "object" /\ ~NotADict(stdin) /\ RulesDone
        /\ ~Truthy(Command(stdin))) =>
           (r_pc = "no_command" /\ r_stdout = <<>> /\ r_exit = 0)
    /\ (StringCommand /\ RulesDone) =>
           (r_pc = "clean" <=> (~ForbiddenCmd /\ ~CautionCmd))

\* a document of another tool whose command holds rm: allowed by the
\* validator, denied by the rules hook
C7_Witness ==
    /\ StringCommand /\ stdin.tool_name = JStr("Edit") /\ ForbiddenCmd
    /\ v_pc = "not_bash" /\ v_stdout = <<Allow>> /\ oracle_calls = 0
    /\ RulesPrinted("deny", "rm command forbidden")

\* the document is not the expected envelope
Malformed ==
    \/ stdin.kind # "object"
    \/ stdin.tool_input = "other"
    \/ stdin.command.t \notin {"str", "absent"}

\* C8, as claimed: on every document each hook ends with exit code 0 and one
\* decision, and a malformed document is allowed by both.
C8_NoCrashOnAnyInput ==
    /\ RulesDone => (r_exit = 0 /\ Len(r_stdout) <= 1)
    /\ ValidatorDone => Len(v_stdout) = 1
    /\ Malformed => /\ RulesDone => r_stdout = <<>>
                    /\ ValidatorDone => v_stdout = <<Allow>>

\* C9: the first word the validator computes is the leading verb: empty when
\* the command has no token, the second token when the first is sudo, time or
\* env and a second exists, the first token otherwise; one wrapper only is
\* skipped, so that "sudo time ls" gives time and "env FOO=1 ls" gives FOO=1,
\* neither of them allow-listed.
C9_LeadingVerb ==
    (v_pc \in {"whitelisted", "analyzed"}) =>
        /\ first_word = LeadingVerb(Cmd)
        /\ Cmd = "sudo time ls" => (first_word = "time" /\ v_pc = "analyzed")
        /\ Cmd = "env FOO=1 ls" => (first_word = "FOO=1" /\ v_pc = "analyzed")

\* a wrapper was skipped and the verb behind it was allow-listed
C9_Witness ==
    /\ v_pc = "whitelisted"
    /\ Cmd = "sudo ls"
    /\ first_word = "ls"

\* C10: the validator prints Deny only when the oracle was invoked, exited
\* with code 0 and its stripped output begins with UNSAFE:; the message is the
\* oracle's reason.  A non-zero exit is Allow whatever the output, and SAFE: at
\* exit 0 is Allow.
C10_DenyOnlyOnUnsafe ==
    ValidatorDone =>
        /\ v_stdout[1].behavior \in {"allow", "deny"}
        /\ v_stdout[1].behavior = "deny" =>
              /\ v_pc = "analyzed" /\ oracle_calls = 1
              /\ OracleSaid("UNSAFE:")
              /\ v_stdout[1].message =
                   "Opus safety check: "
                   \o Strip(SubSeq(Strip(oracle_result.stdout), 8,
                                   Len(Strip(oracle_result.stdout))))
        /\ (oracle_result.kind = "completed" /\ oracle_result.returncode # 0) =>
              v_stdout = <<Allow>>
        /\ OracleSaid("SAFE:") => v_stdout = <<Allow>>

\* the oracle exited 0 with an output that, stripped, begins with UNSAFE:,
\* and the command was denied with the oracle's reason
C10_Witness ==
    /\ v_pc = "analyzed"
    /\ oracle_result = Completed(0, " UNSAFE: deletes files\n")
    /\ v_stdout = <<[behavior |-> "deny",
                     message |-> "Opus safety check: deletes files"]>>

====
